---- MODULE Spec2Model ----
(***************************************************************************)
(* Next.js framework adapter of firebase-tools                             *)
(* (src/src/frameworks/next/index.ts): build(), which reads the manifests  *)
(* of the framework build and decides whether a backend is needed, and     *)
(* ɵcodegenPublicDirectory(), which copies the static part of the build    *)
(* into the hosting directory.                                             *)
(*                                                                         *)
(* Strings that the code takes apart are sequences of tokens: a path is a  *)
(* sequence of "/" separators and maximal runs of other characters         *)
(* ("/a/b" is <<"/", "a", "/", "b">>).  A relative file name is the        *)
(* sequence of its path segments plus its extension.                       *)
(***************************************************************************)
EXTENDS Integers, Sequences, FiniteSets, TLC

VARIABLES
  middlewareManifestFile,    \* <distDir>/server/middleware-manifest.json
  exportMarkerFile,          \* <distDir>/export-marker.json
  imagesManifestFile,        \* <distDir>/images-manifest.json
  appPathRoutesManifestFile, \* <distDir>/app-path-routes-manifest.json
  prerenderManifestFile,     \* <distDir>/prerender-manifest.json
  pagesManifestFile,         \* <distDir>/server/pages-manifest.json
  routesManifestFile,        \* <distDir>/routes-manifest.json
  serverFiles,               \* files under <distDir>/server/pages and <distDir>/server/app
  publicDir,                 \* <sourceDir>/public
  staticDir,                 \* <distDir>/static
  pc,                        \* position of build()
  reasonsForBackend,         \* build(): the reasons accumulated so far
  wantsBackend,              \* build(): returned flag
  headers,                   \* build(): returned header rules
  redirects,                 \* build(): returned redirect rules
  rewrites,                  \* build(): returned rewrite rules
  xpc,                       \* position of ɵcodegenPublicDirectory()
  xi,                        \* its loop index (default html files, then routes)
  run,                       \* number of the export run in progress
  destDirs,                  \* directories of destDir
  destFiles,                 \* files of destDir: set of [path, content]
  copies,                    \* log of the copyFile calls that succeeded
  firstOutput                \* destDir as the first export run left it

disk == <<middlewareManifestFile, exportMarkerFile, imagesManifestFile,
          appPathRoutesManifestFile, prerenderManifestFile, pagesManifestFile,
          routesManifestFile, serverFiles, publicDir, staticDir>>
buildVars == <<pc, reasonsForBackend, wantsBackend, headers, redirects, rewrites>>
exportVars == <<xpc, xi, run, destDirs, destFiles, copies, firstOutput>>
vars == <<disk, buildVars, exportVars>>

----------------------------------------------------------------------------
(* Bounds of the model *)

MaxRoutes == 2      \* longest prerender-manifest route list
MaxRules == 2       \* longest rule list of one kind in the routes manifest
MaxExportRuns == 2  \* export runs against the same destination

----------------------------------------------------------------------------
(* Generic helpers *)

RECURSIVE SeqsUpTo(_, _)
SeqsUpTo(S, n) ==
  IF n = 0 THEN {<<>>}
  ELSE LET shorter == SeqsUpTo(S, n - 1)
       IN  shorter \cup {Append(s, x) : s \in {t \in shorter : Len(t) = n - 1}, x \in S}

Range(s) == {s[i] : i \in 1..Len(s)}

Front(s) == SubSeq(s, 1, Len(s) - 1)

IsPrefix(p, s) == Len(p) <= Len(s) /\ SubSeq(s, 1, Len(p)) = p

RECURSIVE MapSeq(_, _)
MapSeq(F(_), s) == IF s = <<>> THEN <<>> ELSE <<F(Head(s))>> \o MapSeq(F, Tail(s))

\* A file of the build output that may be missing.
Absent == [exists |-> FALSE]
Present(json) == [exists |-> TRUE, json |-> json]

----------------------------------------------------------------------------
(* Helpers of the repository that live outside index.ts *)

\* readJSON(path): the parsed file; it fails when the file does not exist.
readJSONFails(file) == ~file.exists

\* fileExistsSync(path)
fileExistsSync(file) == file.exists

\* pathHasRegex: the source pattern holds an unescaped regex group.
pathHasRegex(source) ==
  \E i \in 1..Len(source) :
     source[i] = "(" /\ (i = 1 \/ source[i - 1] # "\\")

\* Characters whose escaping the target grammar does not need.
EscapedChars == {"(", ")", "{", "}", ":", "+", "?", "*"}

\* cleanEscapedChars(path): drop the backslash before an escaped character.
RECURSIVE cleanEscapedChars(_)
cleanEscapedChars(path) ==
  IF path = <<>> THEN <<>>
  ELSE IF Len(path) >= 2 /\ path[1] = "\\" /\ path[2] \in EscapedChars
       THEN <<path[2]>> \o cleanEscapedChars(SubSeq(path, 3, Len(path)))
       ELSE <<path[1]>> \o cleanEscapedChars(Tail(path))

\* Redirect status codes the target accepts.
TargetRedirectCodes == {301, 302, 307, 308}

isHeaderSupportedByFirebase(header) ==
  ~header.has /\ ~pathHasRegex(header.source)

isRedirectSupportedByFirebase(redirect) ==
  /\ ~redirect.has
  /\ ~pathHasRegex(redirect.source)
  /\ redirect.statusCode \in TargetRedirectCodes

\* A destination that refers to a capture group (":name") cannot be bound.
isRewriteSupportedByFirebase(rewrite) ==
  /\ ~rewrite.has
  /\ ~pathHasRegex(rewrite.source)
  /\ \A i \in 1..Len(rewrite.destination) : rewrite.destination[i] # ":id"

\* getNextjsRewritesToUse: a plain list as it is, phased rewrites by their
\* beforeFiles phase.
getNextjsRewritesToUse(nextJsRewrites) ==
  IF nextJsRewrites.phased THEN nextJsRewrites.beforeFiles ELSE nextJsRewrites.list

----------------------------------------------------------------------------
(* JavaScript built-ins used by index.ts *)

\* new RegExp(regex).test(path), for the two regex shapes of the model:
\* "^<path>$" (exact) and "^<path>" (any path that starts with it).
RegExpTest(regex, path) ==
  IF regex.exact THEN path = regex.path ELSE IsPrefix(regex.path, path)

\* value used as a condition
Truthy(n) == n # 0

----------------------------------------------------------------------------
(* build(): the signals, one definition per decision of the code *)

Reason(text, key) == [text |-> text, key |-> key]

NoKey == <<>>

usingMiddleware(middlewareManifest) == Len(middlewareManifest.middleware) > 0

usingImageOptimization(imagesManifest) == imagesManifest.images.unoptimized = FALSE

\* variant: an empty app-directory manifest counts as use of the app directory
usingAppDirectoryOnEmpty(appPathRoutesManifestJSON) == Len(appPathRoutesManifestJSON) >= 0

usingAppDirectory(appPathRoutesManifestJSON) == Len(appPathRoutesManifestJSON) > 0

dynamicRoutesWithFallback(prerenderManifest) ==
  SelectSeq(prerenderManifest.dynamicRoutes, LAMBDA it : it.fallback # "false")

\* variant: a route revalidated within the minute does not count
routesWithRevalidateOverMinute(prerenderManifest) ==
  SelectSeq(prerenderManifest.routes, LAMBDA it : it.initialRevalidateSeconds > 60)

routesWithRevalidate(prerenderManifest) ==
  SelectSeq(prerenderManifest.routes, LAMBDA it : Truthy(it.initialRevalidateSeconds))

ReservedPages ==
  {<<"/", "_app">>, <<"/">>, <<"/", "_error">>, <<"/", "_document">>, <<"/", "404">>}

\* variant: the dynamic routes are not looked at
unrenderedPagesIgnoringDynamic(pagesManifestJSON, prerenderManifest) ==
  LET prerenderedRoutes == {r.path : r \in Range(prerenderManifest.routes)}
  IN  SelectSeq(pagesManifestJSON,
                LAMBDA it : ~(it \in ReservedPages \/ it \in prerenderedRoutes))

unrenderedPages(pagesManifestJSON, prerenderManifest) ==
  LET prerenderedRoutes == {r.path : r \in Range(prerenderManifest.routes)}
      dynamicRoutes == {r.path : r \in Range(prerenderManifest.dynamicRoutes)}
  IN  SelectSeq(pagesManifestJSON,
                LAMBDA it : ~(it \in ReservedPages \/ it \in prerenderedRoutes
                              \/ it \in dynamicRoutes))

ReasonsFor(text, entries) == MapSeq(LAMBDA e : Reason(text, e), entries)

PathOf(entry) == entry.path

isEveryHeaderSupported(nextJsHeaders) ==
  \A i \in 1..Len(nextJsHeaders) : isHeaderSupportedByFirebase(nextJsHeaders[i])

isEveryRedirectSupported(nextJsRedirects) ==
  \A i \in 1..Len(nextJsRedirects) : isRedirectSupportedByFirebase(nextJsRedirects[i])

isEveryRewriteSupported(nextJsRewritesToUse) ==
  \A i \in 1..Len(nextJsRewritesToUse) : isRewriteSupportedByFirebase(nextJsRewritesToUse[i])

\* variant: only the rules of the list in use decide
usingAdvancedRewritesPerRule(nextJsRewrites) ==
  ~isEveryRewriteSupported(getNextjsRewritesToUse(nextJsRewrites))

\* The rewrites decision: phased rewrites with an afterFiles or fallback
\* phase, else some rule of the list in use that is not supported.
usingAdvancedRewrites(nextJsRewrites) ==
  IF nextJsRewrites.phased
     /\ (Len(nextJsRewrites.afterFiles) > 0 \/ Len(nextJsRewrites.fallback) > 0)
  THEN TRUE
  ELSE ~isEveryRewriteSupported(getNextjsRewritesToUse(nextJsRewrites))

EmitHeader(h) == [source |-> cleanEscapedChars(h.source), headers |-> h.headers]

EmitRedirect(r) ==
  [source |-> cleanEscapedChars(r.source), destination |-> r.destination,
   type |-> r.statusCode]

EmitRewrite(w) == [source |-> cleanEscapedChars(w.source), destination |-> w.destination]

\* variant: the unsupported headers are emitted as well
headersOfUnfiltered(nextJsHeaders) == MapSeq(EmitHeader, nextJsHeaders)

headersOf(nextJsHeaders) ==
  MapSeq(EmitHeader, SelectSeq(nextJsHeaders, isHeaderSupportedByFirebase))

redirectsOf(nextJsRedirects) ==
  MapSeq(EmitRedirect, SelectSeq(nextJsRedirects, isRedirectSupportedByFirebase))

rewritesOf(nextJsRewrites) ==
  MapSeq(EmitRewrite,
         SelectSeq(getNextjsRewritesToUse(nextJsRewrites), isRewriteSupportedByFirebase))

\* variant: a single reason is not enough
wantsBackendOfSeveral(reasons) == Len(reasons) > 1

wantsBackendOf(reasons) == Len(reasons) > 0

\* variant: the reason goes to the front of the list
PushFirstIf(cond, reasons, text) ==
  IF cond THEN <<Reason(text, NoKey)>> \o reasons ELSE reasons

PushIf(cond, reasons, text) ==
  IF cond THEN Append(reasons, Reason(text, NoKey)) ELSE reasons

----------------------------------------------------------------------------
(* build(): one action per stretch of code between two awaited reads *)

BuildFails ==
  /\ pc' = "failed"
  /\ UNCHANGED <<reasonsForBackend, wantsBackend, headers, redirects, rewrites>>

BuildGoes(next, reasons) ==
  /\ pc' = next
  /\ reasonsForBackend' = reasons
  /\ UNCHANGED <<wantsBackend, headers, redirects, rewrites>>

ReadMiddlewareManifest ==
  /\ pc = "readMiddleware"
  /\ IF readJSONFails(middlewareManifestFile)
     THEN BuildFails
     ELSE BuildGoes("readExportMarker",
                    PushIf(usingMiddleware(middlewareManifestFile.json),
                           reasonsForBackend, "use of Next middleware"))
  /\ UNCHANGED <<disk, exportVars>>

ReadExportMarker ==
  /\ pc = "readExportMarker"
  /\ IF readJSONFails(exportMarkerFile)
     THEN BuildFails
     ELSE BuildGoes(IF exportMarkerFile.json.isNextImageImported
                    THEN "readImagesManifest" ELSE "readAppPathRoutes",
                    reasonsForBackend)
  /\ UNCHANGED <<disk, exportVars>>

ReadImagesManifest ==
  /\ pc = "readImagesManifest"
  /\ IF readJSONFails(imagesManifestFile)
     THEN BuildFails
     ELSE BuildGoes("readAppPathRoutes",
                    PushIf(usingImageOptimization(imagesManifestFile.json),
                           reasonsForBackend, "use of Next Image Optimization"))
  /\ UNCHANGED <<disk, exportVars>>

ReadAppPathRoutesManifest ==
  /\ pc = "readAppPathRoutes"
  /\ LET appPathRoutesManifestJSON ==
           IF fileExistsSync(appPathRoutesManifestFile)
           THEN appPathRoutesManifestFile.json ELSE <<>>
     IN  BuildGoes("readPrerender",
                   PushIf(usingAppDirectory(appPathRoutesManifestJSON),
                          reasonsForBackend, "use of Next app directory"))
  /\ UNCHANGED <<disk, exportVars>>

ReadPrerenderManifest ==
  /\ pc = "readPrerender"
  /\ IF readJSONFails(prerenderManifestFile)
     THEN BuildFails
     ELSE LET prerenderManifest == prerenderManifestFile.json
          IN  BuildGoes("readPages",
                reasonsForBackend
                \o ReasonsFor("use of fallback",
                              MapSeq(PathOf, dynamicRoutesWithFallback(prerenderManifest)))
                \o ReasonsFor("use of revalidate",
                              MapSeq(PathOf, routesWithRevalidate(prerenderManifest))))
  /\ UNCHANGED <<disk, exportVars>>

ReadPagesManifest ==
  /\ pc = "readPages"
  /\ IF readJSONFails(pagesManifestFile)
     THEN BuildFails
     ELSE BuildGoes("readRoutes",
                reasonsForBackend
                \o ReasonsFor("non-static route",
                              unrenderedPages(pagesManifestFile.json,
                                              prerenderManifestFile.json)))
  /\ UNCHANGED <<disk, exportVars>>

ReadRoutesManifest ==
  /\ pc = "readRoutes"
  /\ IF readJSONFails(routesManifestFile)
     THEN BuildFails
     ELSE LET manifest == routesManifestFile.json
              r1 == PushIf(~isEveryHeaderSupported(manifest.headers),
                           reasonsForBackend, "use of advanced headers")
              r2 == PushIf(~isEveryRedirectSupported(manifest.redirects),
                           r1, "use of advanced redirects")
              r3 == PushIf(usingAdvancedRewrites(manifest.rewrites),
                           r2, "use of advanced rewrites")
          IN  /\ reasonsForBackend' = r3
              /\ headers' = headersOf(manifest.headers)
              /\ redirects' = redirectsOf(manifest.redirects)
              /\ rewrites' = rewritesOf(manifest.rewrites)
              /\ wantsBackend' = wantsBackendOf(r3)
              /\ pc' = "returned"
  /\ UNCHANGED <<disk, exportVars>>

BuildNext ==
  \/ ReadMiddlewareManifest
  \/ ReadExportMarker
  \/ ReadImagesManifest
  \/ ReadAppPathRoutesManifest
  \/ ReadPrerenderManifest
  \/ ReadPagesManifest
  \/ ReadRoutesManifest

----------------------------------------------------------------------------
(* File-system calls of ɵcodegenPublicDirectory on destDir.  A directory   *)
(* is the sequence of its segments (<<>> is destDir itself); a file is     *)
(* [segs, ext]; a file's content is the build file it was copied from.     *)

File(segs, ext) == [segs |-> segs, ext |-> ext]

dirname(file) == Front(file.segs)

\* variant: mkdir without the recursive option fails on an existing directory
mkdirFailsIfExists(dirs, dir) == dir \in dirs

\* mkdir(dir, { recursive: true }): the directory and its ancestors; an
\* existing directory is no error, a missing parent neither.
mkdirFails(dirs, dir) == FALSE

mkdir(dirs, dir) == dirs \cup {SubSeq(dir, 1, n) : n \in 0..Len(dir)}

\* variant: a failed copy goes unnoticed
copyFileFailsNever(exists, dirs, dest) == FALSE

\* copyFile(src, dest) fails when the source file or the destination
\* directory does not exist; an existing destination file is overwritten.
copyFileFails(exists, dirs, dest) == ~exists \/ dirname(dest) \notin dirs

copyFile(files, dest, content) ==
  {f \in files : f.path # dest} \cup {[path |-> dest, content |-> content]}

\* copy(srcDir, destDir) of fs-extra: every file of the source tree, with
\* the directories it needs, overwriting.
RECURSIVE copyTree(_, _, _, _)
copyTree(files, todo, under, origin) ==
  IF todo = {} THEN files
  ELSE LET f == CHOOSE x \in todo : TRUE
       IN  copyTree(copyFile(files, File(under \o f.segs, f.ext),
                             [loc |-> origin, file |-> f]),
                    todo \ {f}, under, origin)

copyTreeDirs(dirs, tree, under) ==
  dirs \cup UNION {mkdir({}, under \o dirname(f)) : f \in tree} \cup mkdir({}, under)

pathExists(loc, file) == [loc |-> loc, file |-> file] \in serverFiles

DefaultHtmlFiles == <<"index", "404", "500">>

\* Which build location a default html file is taken from ("none": the
\* file is in neither location and nothing is copied).
defaultHtmlFrom(file) ==
  IF pathExists("pages", file) THEN "pages"
  ELSE IF pathExists("app", file) THEN "app"
  ELSE "none"

middlewareMatchersOf(middlewareManifest) ==
  LET RECURSIVE flat(_)
      flat(entries) ==
        IF entries = <<>> THEN <<>> ELSE Head(entries).matchers \o flat(Tail(entries))
  IN  flat(middlewareManifest.middleware)

matchingMiddleware(path, middlewareMatchers) ==
  \E i \in 1..Len(middlewareMatchers) : RegExpTest(middlewareMatchers[i].regexp, path)

rewritesNotSupportedByFirebase(routesManifest) ==
  SelectSeq(getNextjsRewritesToUse(routesManifest.rewrites),
            LAMBDA rewrite : ~isRewriteSupportedByFirebase(rewrite))

redirectsNotSupportedByFirebase(routesManifest) ==
  SelectSeq(routesManifest.redirects,
            LAMBDA redirect : ~isRedirectSupportedByFirebase(redirect))

headersNotSupportedByFirebase(routesManifest) ==
  SelectSeq(routesManifest.headers, LAMBDA header : ~isHeaderSupportedByFirebase(header))

routeMatches(path, rules) ==
  \E i \in 1..Len(rules) : RegExpTest(rules[i].regex, path)

\* The four early "continue"s of the per-route loop.
skipsRoute(path, route) ==
  \/ Truthy(route.initialRevalidateSeconds)
  \/ matchingMiddleware(path, middlewareMatchersOf(middlewareManifestFile.json))
  \/ routeMatches(path, rewritesNotSupportedByFirebase(routesManifestFile.json))
  \/ routeMatches(path, redirectsNotSupportedByFirebase(routesManifestFile.json))
  \/ routeMatches(path, headersNotSupportedByFirebase(routesManifestFile.json))

isReactServerComponent(route) == route.dataRoute.ext = "rsc"

contentDistOf(route) == IF isReactServerComponent(route) THEN "app" ELSE "pages"

\* variant: the root route is not given the name "index"
partsOnly(path) == SelectSeq(path, LAMBDA it : it # "/")

\* path.split("/").filter((it) => !!it), then the "index" default
partsOrIndex(path) ==
  LET parts == SelectSeq(path, LAMBDA it : it # "/")
  IN  IF Len(parts) > 0 THEN parts ELSE <<"index">>

htmlPathOf(path) == File(partsOrIndex(path), "html")

dataPathOf(path) == File(partsOrIndex(path), "json")

----------------------------------------------------------------------------
(* ɵcodegenPublicDirectory(): one action per awaited stretch *)

Copied(by, src, dest) == [run |-> run, by |-> by, src |-> src, dest |-> dest]

ByDefault == <<>>

ExportGoes(next, i, dirs, files, log) ==
  /\ xpc' = next
  /\ xi' = i
  /\ destDirs' = dirs
  /\ destFiles' = files
  /\ copies' = log
  /\ UNCHANGED <<run, firstOutput>>

MkdirStatic ==
  /\ xpc = "mkdirStatic"
  /\ IF mkdirFails(destDirs, <<"_next", "static">>)
     THEN ExportGoes("failed:mkdir", xi, destDirs, destFiles, copies)
     ELSE ExportGoes("copyPublic", xi, mkdir(destDirs, <<"_next", "static">>),
                     destFiles, copies)
  /\ UNCHANGED <<disk, buildVars>>

CopyPublic ==
  /\ xpc = "copyPublic"
  /\ IF publicDir.exists
     THEN ExportGoes("copyStatic", xi, copyTreeDirs(destDirs, publicDir.json, <<>>),
                     copyTree(destFiles, publicDir.json, <<>>, "public"), copies)
     ELSE ExportGoes("copyStatic", xi, destDirs, destFiles, copies)
  /\ UNCHANGED <<disk, buildVars>>

CopyStatic ==
  /\ xpc = "copyStatic"
  /\ IF staticDir.exists
     THEN ExportGoes("defaultHtml", 1,
                     copyTreeDirs(destDirs, staticDir.json, <<"_next", "static">>),
                     copyTree(destFiles, staticDir.json, <<"_next", "static">>, "static"),
                     copies)
     ELSE ExportGoes("failed:copyStatic", xi, destDirs, destFiles, copies)
  /\ UNCHANGED <<disk, buildVars>>

CopyDefaultHtml ==
  /\ xpc = "defaultHtml"
  /\ LET file == File(<<DefaultHtmlFiles[xi]>>, "html")
         from == defaultHtmlFrom(file)
         src == [loc |-> from, file |-> file]
         next == IF xi < Len(DefaultHtmlFiles) THEN "defaultHtml" ELSE "readMiddleware"
         i == IF xi < Len(DefaultHtmlFiles) THEN xi + 1 ELSE xi
     IN  IF from = "none"
         THEN ExportGoes(next, i, destDirs, destFiles, copies)
         ELSE IF copyFileFails(TRUE, destDirs, file)
         THEN ExportGoes("failed:defaultHtml", xi, destDirs, destFiles, copies)
         ELSE ExportGoes(next, i, destDirs, copyFile(destFiles, file, src),
                         Append(copies, Copied(ByDefault, src, file)))
  /\ UNCHANGED <<disk, buildVars>>

ExportReadMiddlewareManifest ==
  /\ xpc = "readMiddleware"
  /\ ExportGoes(IF readJSONFails(middlewareManifestFile)
                THEN "failed:readMiddleware" ELSE "readManifests",
                xi, destDirs, destFiles, copies)
  /\ UNCHANGED <<disk, buildVars>>

ExportReadManifests ==
  /\ xpc = "readManifests"
  /\ ExportGoes(IF readJSONFails(prerenderManifestFile) \/ readJSONFails(routesManifestFile)
                THEN "failed:readManifests" ELSE "routes",
                1, destDirs, destFiles, copies)
  /\ UNCHANGED <<disk, buildVars>>

ExportRoute ==
  /\ xpc = "routes"
  /\ xi <= Len(prerenderManifestFile.json.routes)
  /\ LET route == prerenderManifestFile.json.routes[xi]
         path == route.path
         contentDist == contentDistOf(route)
         htmlPath == htmlPathOf(path)
         htmlSrc == [loc |-> contentDist, file |-> htmlPath]
         dataPath == dataPathOf(path)
         dataSrc == [loc |-> contentDist, file |-> dataPath]
         dirs1 == mkdir(destDirs, dirname(htmlPath))
         files1 == copyFile(destFiles, htmlPath, htmlSrc)
         log1 == Append(copies, Copied(path, htmlSrc, htmlPath))
         dirs2 == mkdir(dirs1, dirname(route.dataRoute))
     IN  IF skipsRoute(path, route)
         THEN ExportGoes("routes", xi + 1, destDirs, destFiles, copies)
         ELSE IF mkdirFails(destDirs, dirname(htmlPath))
         THEN ExportGoes("failed:route", xi, destDirs, destFiles, copies)
         ELSE IF copyFileFails(pathExists(contentDist, htmlPath), dirs1, htmlPath)
         THEN ExportGoes("failed:route", xi, dirs1, destFiles, copies)
         ELSE IF isReactServerComponent(route)
         THEN ExportGoes("routes", xi + 1, dirs1, files1, log1)
         ELSE IF mkdirFails(dirs1, dirname(route.dataRoute))
         THEN ExportGoes("failed:route", xi, dirs1, files1, log1)
         ELSE IF copyFileFails(pathExists(contentDist, dataPath), dirs2, route.dataRoute)
         THEN ExportGoes("failed:route", xi, dirs2, files1, log1)
         ELSE ExportGoes("routes", xi + 1, dirs2,
                         copyFile(files1, route.dataRoute, dataSrc),
                         Append(log1, Copied(path, dataSrc, route.dataRoute)))
  /\ UNCHANGED <<disk, buildVars>>

ExportReturn ==
  /\ xpc = "routes"
  /\ xi > Len(prerenderManifestFile.json.routes)
  /\ xpc' = "returned"
  /\ firstOutput' = IF run = 1 THEN [dirs |-> destDirs, files |-> destFiles]
                    ELSE firstOutput
  /\ UNCHANGED <<xi, run, destDirs, destFiles, copies, disk, buildVars>>

\* The caller exports again into the same destDir, the build unchanged.
ExportAgain ==
  /\ xpc = "returned"
  /\ run < MaxExportRuns
  /\ xpc' = "mkdirStatic"
  /\ run' = run + 1
  /\ xi' = 1
  /\ UNCHANGED <<destDirs, destFiles, copies, firstOutput, disk, buildVars>>

\* the export threw
ExportFailed ==
  xpc \in {"failed:mkdir", "failed:copyStatic", "failed:defaultHtml",
           "failed:readMiddleware", "failed:readManifests", "failed:route"}

ExportNext ==
  \/ MkdirStatic
  \/ CopyPublic
  \/ CopyStatic
  \/ CopyDefaultHtml
  \/ ExportReadMiddlewareManifest
  \/ ExportReadManifests
  \/ ExportRoute
  \/ ExportReturn
  \/ ExportAgain

----------------------------------------------------------------------------
(* The build outputs the model is checked on *)

Exact(path) == [exact |-> TRUE, path |-> path]
StartsWith(path) == [exact |-> FALSE, path |-> path]

Root == <<"/">>
PathA == <<"/", "a">>
PathAB == <<"/", "a", "/", "b">>
RoutePaths == {Root, PathA, PathAB}

\* middleware-manifest.json
NoMiddleware == [middleware |-> <<>>]
Middleware(matchers) == [middleware |-> <<[name |-> "/", matchers |-> matchers]>>]
Matcher(regexp) == [regexp |-> regexp]
MiddlewareOnRoot == Middleware(<<Matcher(Exact(Root))>>)
MiddlewareOnA == Middleware(<<Matcher(StartsWith(PathA))>>)
MiddlewareManifests == {NoMiddleware, Middleware(<<>>), MiddlewareOnRoot, MiddlewareOnA}

\* export-marker.json and images-manifest.json
Marker(imported) == [isNextImageImported |-> imported]
Images(unoptimized) == [images |-> [unoptimized |-> unoptimized]]
ImageFiles ==
  {<<Absent, Absent>>, <<Present(Marker(FALSE)), Absent>>, <<Present(Marker(TRUE)), Absent>>,
   <<Present(Marker(TRUE)), Present(Images(TRUE))>>,
   <<Present(Marker(TRUE)), Present(Images(FALSE))>>}

\* prerender-manifest.json: the data route of a legacy page is
\* /_next/data/<buildId>/<page>.json, of an app page /<page>.rsc
DataRoute(path, kind) ==
  IF kind = "rsc" THEN File(partsOrIndex(path), "rsc")
  ELSE File(<<"_next", "data", "B">> \o partsOrIndex(path), "json")

Route(path, seconds, kind) ==
  [path |-> path, initialRevalidateSeconds |-> seconds, dataRoute |-> DataRoute(path, kind)]

DistinctPaths(routes) ==
  \A i, j \in 1..Len(routes) : routes[i].path = routes[j].path => i = j

RouteLists(entries) == {l \in SeqsUpTo(entries, MaxRoutes) : DistinctPaths(l)}

\* every route legacy-rendered, static or revalidated
LegacyRoutes == {Route(p, s, "json") : p \in RoutePaths, s \in {0, 10}}

\* static legacy, static component-rendered, revalidated legacy
ExportRoutes ==
  {Route(p, 0, k) : p \in RoutePaths, k \in {"json", "rsc"}}
  \cup {Route(p, 10, "json") : p \in RoutePaths}

DynamicPath == <<"/", "[id]">>
DynamicRouteLists ==
  {<<>>, <<[path |-> DynamicPath, fallback |-> "false"]>>,
   <<[path |-> DynamicPath, fallback |-> "null"]>>}

Prerender(routes, dynamicRoutes) == [routes |-> routes, dynamicRoutes |-> dynamicRoutes]

\* pages-manifest.json: its keys
PageKeys == <<<<"/", "_app">>, Root, PathA, <<"/", "about">>, DynamicPath>>
PageLists ==
  {SelectSeq(PageKeys, LAMBDA k : k \in S) : S \in SUBSET Range(PageKeys)}

\* routes-manifest.json
Header(source, regex, has) ==
  [source |-> source, regex |-> regex, has |-> has, headers |-> <<"x-frame-options">>]
Redirect(source, regex, statusCode) ==
  [source |-> source, regex |-> regex, has |-> FALSE, destination |-> <<"/", "to">>,
   statusCode |-> statusCode]
Rewrite(source, regex, destination) ==
  [source |-> source, regex |-> regex, has |-> FALSE, destination |-> destination]

EscapedSource == <<"/", "b", "\\", "(", "x", "\\", ")">>
GroupSource == <<"/", "a", "(", ".*", ")">>

HeaderOk == Header(PathA, Exact(PathA), FALSE)
HeaderEscaped == Header(EscapedSource, StartsWith(<<"/", "b">>), FALSE)
HeaderHas == Header(PathA, StartsWith(PathA), TRUE)
HeaderPool == {HeaderOk, HeaderEscaped, HeaderHas}

RedirectOk == Redirect(EscapedSource, StartsWith(<<"/", "b">>), 308)
RedirectStatus == Redirect(PathA, Exact(PathA), 303)
RedirectPool == {RedirectOk, RedirectStatus}

RewriteOk == Rewrite(PathA, Exact(PathA), <<"/", "to">>)
RewriteCapture == Rewrite(GroupSource, Exact(PathA), <<"/", "to", "/", ":id">>)
RewritePool == {RewriteOk, RewriteCapture}

Plain(list) == [phased |-> FALSE, list |-> list]
Phased(beforeFiles, afterFiles, fallback) ==
  [phased |-> TRUE, beforeFiles |-> beforeFiles, afterFiles |-> afterFiles,
   fallback |-> fallback]

Routes(h, r, w) == [headers |-> h, redirects |-> r, rewrites |-> w]

QuietRoutes == Routes(<<>>, <<>>, Plain(<<>>))

RewriteShapes(lists) ==
  {Plain(l) : l \in lists}
  \cup {Phased(l, p[1], p[2]) :
          l \in lists,
          p \in {<<<<>>, <<>>>>, <<<<RewriteOk>>, <<>>>>, <<<<>>, <<RewriteOk>>>>}}

\* one or two rules of each kind, plain and phased rewrites
FewRoutes ==
  {Routes(h, r, w) :
     h \in {<<>>, <<HeaderOk>>, <<HeaderHas>>},
     r \in {<<>>, <<RedirectStatus>>},
     w \in RewriteShapes({<<>>, <<RewriteOk>>, <<RewriteCapture>>})}

\* every rule list up to MaxRules
ManyRoutes ==
  {Routes(h, r, w) :
     h \in SeqsUpTo(HeaderPool, MaxRules),
     r \in SeqsUpTo(RedirectPool, MaxRules),
     w \in RewriteShapes(SeqsUpTo(RewritePool, MaxRules))}

\* each rule kind unsupported on its own, for the export
SkippingRoutes ==
  {QuietRoutes,
   Routes(<<HeaderHas>>, <<>>, Plain(<<>>)),
   Routes(<<>>, <<RedirectStatus>>, Plain(<<RewriteOk>>)),
   Routes(<<HeaderOk>>, <<>>, Phased(<<RewriteCapture>>, <<>>, <<>>))}

\* <distDir>/server: what the build writes for a prerendered route (a
\* revalidated route is rendered at build time as well)
Built(loc, file) == [loc |-> loc, file |-> file]

FilesOfRoute(route) ==
  IF isReactServerComponent(route)
  THEN {Built("app", htmlPathOf(route.path))}
  ELSE {Built("pages", htmlPathOf(route.path)), Built("pages", dataPathOf(route.path))}

FilesOfRoutes(routes) == UNION {FilesOfRoute(r) : r \in Range(routes)}

\* the build as it should be, and the builds that lack one promised file
ServerFileSets(routes) ==
  {FilesOfRoutes(routes)} \cup {FilesOfRoutes(routes) \ {f} : f \in FilesOfRoutes(routes)}

DefaultHtmlSets ==
  {UNION {{Built(loc, File(<<DefaultHtmlFiles[i]>>, "html")) : loc \in where[i]}
          : i \in 1..Len(DefaultHtmlFiles)}
   : where \in [1..Len(DefaultHtmlFiles) -> SUBSET {"pages", "app"}]}

PublicFiles == {File(<<"favicon">>, "ico"), File(<<"img", "logo">>, "png")}
StaticFiles == {File(<<"chunks", "main">>, "js")}

----------------------------------------------------------------------------
(* Initial states: nothing has run, destDir is empty *)

ProgramInit ==
  /\ pc = "readMiddleware"
  /\ reasonsForBackend = <<>>
  /\ wantsBackend = FALSE
  /\ headers = <<>>
  /\ redirects = <<>>
  /\ rewrites = <<>>
  /\ xpc = "mkdirStatic"
  /\ xi = 1
  /\ run = 1
  /\ destDirs = {}
  /\ destFiles = {}
  /\ copies = <<>>
  /\ firstOutput = [dirs |-> {}, files |-> {}]

OrAbsent(jsons) == {Absent} \cup {Present(j) : j \in jsons}

QuietPrerender == Prerender(<<>>, <<>>)
LoudPrerender ==
  Prerender(<<Route(PathA, 10, "json")>>, <<[path |-> DynamicPath, fallback |-> "null"]>>)
QuietPages == <<<<"/", "_app">>>>
LoudPages == <<<<"/", "_app">>, <<"/", "about">>>>
LoudRoutes == Routes(<<HeaderHas>>, <<RedirectStatus>>, Plain(<<RewriteCapture>>))

NoExportInput ==
  /\ serverFiles = {}
  /\ publicDir = Absent
  /\ staticDir = Absent

\* every way the middleware, image and app-directory files can be
SignalBuilds ==
  /\ middlewareManifestFile \in OrAbsent(MiddlewareManifests)
  /\ \E p \in ImageFiles : exportMarkerFile = p[1] /\ imagesManifestFile = p[2]
  /\ appPathRoutesManifestFile \in OrAbsent({<<>>, <<<<"/", "page">>>>})
  /\ prerenderManifestFile \in {Present(QuietPrerender), Present(LoudPrerender)}
  /\ pagesManifestFile \in {Present(QuietPages), Present(LoudPages)}
  /\ routesManifestFile \in {Present(QuietRoutes), Present(LoudRoutes)}

\* every prerender manifest against every pages manifest
PageBuilds ==
  /\ middlewareManifestFile = Present(NoMiddleware)
  /\ exportMarkerFile = Present(Marker(FALSE))
  /\ imagesManifestFile = Absent
  /\ appPathRoutesManifestFile = Absent
  /\ prerenderManifestFile \in
       OrAbsent({Prerender(r, d) : r \in RouteLists(LegacyRoutes), d \in DynamicRouteLists})
  /\ pagesManifestFile \in OrAbsent(PageLists)
  /\ routesManifestFile \in {Present(QuietRoutes), Present(LoudRoutes)}

\* a few rules of each shape against the other signals
RuleBuilds ==
  /\ middlewareManifestFile \in {Present(NoMiddleware), Present(MiddlewareOnA)}
  /\ \E p \in {<<Present(Marker(FALSE)), Absent>>,
              <<Present(Marker(TRUE)), Present(Images(FALSE))>>} :
        exportMarkerFile = p[1] /\ imagesManifestFile = p[2]
  /\ appPathRoutesManifestFile = Absent
  /\ prerenderManifestFile \in {Present(QuietPrerender), Present(LoudPrerender)}
  /\ pagesManifestFile \in {Present(QuietPages), Present(LoudPages)}
  /\ routesManifestFile \in OrAbsent(FewRoutes)

\* every rule list, nothing else asking for a backend
RuleListBuilds ==
  /\ middlewareManifestFile = Present(NoMiddleware)
  /\ exportMarkerFile = Present(Marker(TRUE))
  /\ imagesManifestFile = Present(Images(TRUE))
  /\ appPathRoutesManifestFile = Present(<<>>)
  /\ prerenderManifestFile = Present(QuietPrerender)
  /\ pagesManifestFile = Present(QuietPages)
  /\ routesManifestFile \in {Present(m) : m \in ManyRoutes}

InitBuild ==
  /\ ProgramInit
  /\ NoExportInput
  /\ (SignalBuilds \/ PageBuilds \/ RuleBuilds \/ RuleListBuilds)

\* the pages manifest of a build whose pages are all prerendered
PagesOf(routes) == QuietPages \o MapSeq(PathOf, routes)

BuildOnlyFiles(routes) ==
  /\ \E p \in {<<Present(Marker(FALSE)), Absent>>,
              <<Present(Marker(TRUE)), Present(Images(TRUE))>>} :
        exportMarkerFile = p[1] /\ imagesManifestFile = p[2]
  /\ appPathRoutesManifestFile = Absent
  /\ pagesManifestFile = Present(PagesOf(routes))

\* public directory, static directory and default html files
AssetExports ==
  /\ publicDir \in OrAbsent({PublicFiles})
  /\ staticDir \in OrAbsent({StaticFiles})
  /\ middlewareManifestFile \in {Present(NoMiddleware), Present(Middleware(<<>>))}
  /\ prerenderManifestFile = Present(Prerender(<<Route(PathA, 0, "json")>>, <<>>))
  /\ routesManifestFile = Present(QuietRoutes)
  /\ serverFiles \in {d \cup FilesOfRoutes(prerenderManifestFile.json.routes)
                      : d \in DefaultHtmlSets}
  /\ BuildOnlyFiles(prerenderManifestFile.json.routes)

\* every route list, under each middleware, complete or lacking one file
RouteExports ==
  /\ publicDir = Present(PublicFiles)
  /\ staticDir = Present(StaticFiles)
  /\ middlewareManifestFile \in
       OrAbsent({NoMiddleware, MiddlewareOnRoot, MiddlewareOnA})
  /\ prerenderManifestFile \in
       OrAbsent({Prerender(r, <<>>) : r \in RouteLists(ExportRoutes)})
  /\ routesManifestFile = Present(QuietRoutes)
  /\ IF prerenderManifestFile.exists
     THEN /\ serverFiles \in ServerFileSets(prerenderManifestFile.json.routes)
          /\ BuildOnlyFiles(prerenderManifestFile.json.routes)
     ELSE /\ serverFiles = {}
          /\ BuildOnlyFiles(<<>>)

\* every route list under each unsupported rule
RuleExports ==
  /\ publicDir = Absent
  /\ staticDir = Present(StaticFiles)
  /\ middlewareManifestFile = Present(NoMiddleware)
  /\ prerenderManifestFile \in
       {Present(Prerender(r, <<>>)) : r \in RouteLists(ExportRoutes)}
  /\ routesManifestFile \in OrAbsent(SkippingRoutes)
  /\ serverFiles = FilesOfRoutes(prerenderManifestFile.json.routes)
  /\ BuildOnlyFiles(prerenderManifestFile.json.routes)

InitExport ==
  /\ ProgramInit
  /\ (AssetExports \/ RouteExports \/ RuleExports)

\* build() alone
SpecBuild == InitBuild /\ [][BuildNext]_vars

\* ɵcodegenPublicDirectory() alone, run up to MaxExportRuns times
SpecExport == InitExport /\ [][ExportNext]_vars

\* a deploy: build(), then the export of what it built
HasBuilt == pc = "returned"

Next ==
  \/ BuildNext
  \/ (HasBuilt /\ MkdirStatic)
  \/ (HasBuilt /\ CopyPublic)
  \/ (HasBuilt /\ CopyStatic)
  \/ (HasBuilt /\ CopyDefaultHtml)
  \/ (HasBuilt /\ ExportReadMiddlewareManifest)
  \/ (HasBuilt /\ ExportReadManifests)
  \/ (HasBuilt /\ ExportRoute)
  \/ (HasBuilt /\ ExportReturn)
  \/ (HasBuilt /\ ExportAgain)

Spec == InitExport /\ [][Next]_vars

----------------------------------------------------------------------------
(* Properties of build() *)

BuildReturned == pc = "returned"

ReasonCount(text, key) ==
  Cardinality({i \in 1..Len(reasonsForBackend) :
                 reasonsForBackend[i] = [text |-> text, key |-> key]})

PrerenderedPaths == {r.path : r \in Range(prerenderManifestFile.json.routes)}
DynamicPaths == {d.path : d \in Range(prerenderManifestFile.json.dynamicRoutes)}

\* C1: whenever build() returns, wantsBackend is true exactly when the list
\* of reasons is not empty.
C1_WantsBackendIffReasons ==
  BuildReturned =>
    /\ (wantsBackend = TRUE => reasonsForBackend # <<>>)
    /\ (wantsBackend = FALSE => reasonsForBackend = <<>>)

C1_Witness == BuildReturned /\ wantsBackend /\ Len(reasonsForBackend) >= 3

MiddlewareEmpty == middlewareManifestFile.json.middleware = <<>>

NoFallbackRoute ==
  \A d \in Range(prerenderManifestFile.json.dynamicRoutes) : d.fallback = "false"

NoRevalidatedRoute ==
  \A r \in Range(prerenderManifestFile.json.routes) : r.initialRevalidateSeconds = 0

IsUnrendered(page) ==
  page \notin ReservedPages /\ page \notin PrerenderedPaths /\ page \notin DynamicPaths

NoUnrenderedPage == \A page \in Range(pagesManifestFile.json) : ~IsUnrendered(page)

AllRewriteRules ==
  LET w == routesManifestFile.json.rewrites
  IN  IF w.phased THEN Range(w.beforeFiles) \cup Range(w.afterFiles) \cup Range(w.fallback)
      ELSE Range(w.list)

AllRulesSupported ==
  /\ \A h \in Range(routesManifestFile.json.headers) : isHeaderSupportedByFirebase(h)
  /\ \A r \in Range(routesManifestFile.json.redirects) : isRedirectSupportedByFirebase(r)
  /\ \A w \in AllRewriteRules : isRewriteSupportedByFirebase(w)

QuietSignals ==
  /\ MiddlewareEmpty
  /\ NoFallbackRoute
  /\ NoRevalidatedRoute
  /\ NoUnrenderedPage
  /\ AllRulesSupported

ImageOptimizationOff ==
  exportMarkerFile.json.isNextImageImported => imagesManifestFile.json.images.unoptimized

NoAppDirectory ==
  appPathRoutesManifestFile.exists => appPathRoutesManifestFile.json = <<>>

NoLaterRewritePhase ==
  LET w == routesManifestFile.json.rewrites
  IN  w.phased => (w.afterFiles = <<>> /\ w.fallback = <<>>)

\* C2 as stated: with no middleware, no fallback route, no revalidated
\* route, no unrendered page and every rule supported, build() returns
\* wantsBackend = false and no reason.
C2_QuietSignalsNoBackend ==
  (BuildReturned /\ QuietSignals) => (~wantsBackend /\ reasonsForBackend = <<>>)

\* C2 amended: the same, provided also that image optimization is not in
\* use, the app-directory manifest is absent or empty, and phased rewrites
\* have no afterFiles or fallback entry.
C2_AllQuietNoBackend ==
  (BuildReturned /\ QuietSignals /\ ImageOptimizationOff /\ NoAppDirectory
   /\ NoLaterRewritePhase)
    => (~wantsBackend /\ reasonsForBackend = <<>>)

C2_Witness ==
  /\ BuildReturned /\ QuietSignals /\ ImageOptimizationOff /\ NoAppDirectory
  /\ NoLaterRewritePhase
  /\ exportMarkerFile.json.isNextImageImported
  /\ routesManifestFile.json.rewrites.phased
  /\ Len(routesManifestFile.json.rewrites.beforeFiles) > 0
  /\ Len(routesManifestFile.json.headers) > 0

\* C4: build() adds exactly one "non-static route" reason for every page
\* of the pages manifest that is not reserved and is a key of neither the
\* prerendered nor the dynamic routes, and then wants a backend; it adds
\* none for any other page.
C4_UnrenderedPagesReasons ==
  BuildReturned =>
    \A page \in Range(pagesManifestFile.json) :
      /\ ReasonCount("non-static route", page) = (IF IsUnrendered(page) THEN 1 ELSE 0)
      /\ IsUnrendered(page) => wantsBackend

C4_Witness ==
  /\ BuildReturned
  /\ \E page \in Range(pagesManifestFile.json) : IsUnrendered(page)
  /\ \E page \in Range(pagesManifestFile.json) :
        page \in PrerenderedPaths /\ page \notin ReservedPages
  /\ \E page \in Range(pagesManifestFile.json) : page \in DynamicPaths

HasLaterRewritePhase ==
  LET w == routesManifestFile.json.rewrites
  IN  w.phased /\ (Len(w.afterFiles) > 0 \/ Len(w.fallback) > 0)

\* C5: phased rewrites with a non-empty afterFiles or fallback phase always
\* give the "use of advanced rewrites" reason and wantsBackend, whatever the
\* single rules are; and no build gives that reason twice.
C5_LaterPhaseIsAdvanced ==
  BuildReturned =>
    /\ HasLaterRewritePhase =>
         (ReasonCount("use of advanced rewrites", NoKey) = 1 /\ wantsBackend)
    /\ ReasonCount("use of advanced rewrites", NoKey) <= 1

C5_Witness ==
  /\ BuildReturned
  /\ HasLaterRewritePhase
  /\ \A w \in AllRewriteRules : isRewriteSupportedByFirebase(w)
  /\ Len(routesManifestFile.json.rewrites.beforeFiles) > 0

\* the indices of the rules that pass, and the k-th of them
PassingIndices(rules, Passes(_)) == {i \in 1..Len(rules) : Passes(rules[i])}

NthOf(S, k) == CHOOSE i \in S : Cardinality({j \in S : j < i}) = k - 1

Unescaped(source) == SelectSeq(source, LAMBDA t : t # "\\")

\* emitted is the rules of given that pass, in the order of given
IsPassingSubsequence(emitted, given, Passes(_), Same(_, _)) ==
  LET passing == PassingIndices(given, Passes)
  IN  /\ Len(emitted) = Cardinality(passing)
      /\ \A k \in 1..Len(emitted) : Same(emitted[k], given[NthOf(passing, k)])

RewritesInUse ==
  LET w == routesManifestFile.json.rewrites
  IN  IF w.phased THEN w.beforeFiles ELSE w.list

\* C7: for each rule kind, the list build() returns is the rules of the
\* routes manifest that pass the kind's predicate, none dropped, none
\* added, in their original order (sources unescaped, the rest unchanged).
C7_RulesFilteredInOrder ==
  BuildReturned =>
    /\ IsPassingSubsequence(headers, routesManifestFile.json.headers,
         isHeaderSupportedByFirebase,
         LAMBDA e, g : e.source = Unescaped(g.source) /\ e.headers = g.headers)
    /\ IsPassingSubsequence(redirects, routesManifestFile.json.redirects,
         isRedirectSupportedByFirebase,
         LAMBDA e, g : /\ e.source = Unescaped(g.source)
                       /\ e.destination = g.destination
                       /\ e.type = g.statusCode)
    /\ IsPassingSubsequence(rewrites, RewritesInUse, isRewriteSupportedByFirebase,
         LAMBDA e, g : e.source = Unescaped(g.source) /\ e.destination = g.destination)

C7_Witness ==
  /\ BuildReturned
  /\ Len(headers) = 2 /\ headers[1] # headers[2]
  /\ Len(redirects) = 1 /\ Len(routesManifestFile.json.redirects) = 2
  /\ isRedirectSupportedByFirebase(routesManifestFile.json.redirects[2])
  /\ routesManifestFile.json.rewrites.phased
  /\ Len(rewrites) = 1 /\ Len(routesManifestFile.json.rewrites.beforeFiles) = 2

----------------------------------------------------------------------------
(* Properties of ɵcodegenPublicDirectory() *)

ExportReturned == xpc = "returned"

PrerenderRoutes == prerenderManifestFile.json.routes

InOutput(path) == \E f \in destFiles : f.path = path

\* C3: a prerendered route with a positive initialRevalidateSeconds (the
\* root route included) gets exactly one "use of revalidate" reason from
\* build(), and after the export the output holds neither its html file nor
\* its data file.
C3_RevalidatedRouteNeverStatic ==
  (BuildReturned /\ ExportReturned) =>
    \A r \in Range(PrerenderRoutes) :
      r.initialRevalidateSeconds > 0 =>
        /\ ReasonCount("use of revalidate", r.path) = 1
        /\ ~InOutput(htmlPathOf(r.path))
        /\ ~InOutput(r.dataRoute)

RECURSIVE Slashed(_)
Slashed(segs) == IF segs = <<>> THEN <<>> ELSE <<"/", Head(segs)>> \o Slashed(Tail(segs))

\* the file is named after the route: "index" for the root route, else the
\* segments of the path
NamedAfter(file, path) ==
  IF path = Root THEN file.segs = <<"index">>
  ELSE file.segs # <<>> /\ Slashed(file.segs) = path

RouteAt(path) == CHOOSE r \in Range(PrerenderRoutes) : r.path = path

IsLegacy(route) == route.dataRoute.ext # "rsc"

IsHtmlCopy(c) ==
  LET r == RouteAt(c.by)
  IN  /\ c.dest.ext = "html"
      /\ NamedAfter(c.dest, c.by)
      /\ c.src = [loc |-> IF IsLegacy(r) THEN "pages" ELSE "app", file |-> c.dest]

IsDataCopy(c) ==
  LET r == RouteAt(c.by)
  IN  /\ IsLegacy(r)
      /\ c.dest = r.dataRoute
      /\ c.src.loc = "pages"
      /\ c.src.file.ext = "json"
      /\ NamedAfter(c.src.file, c.by)

RouteCopies(path, n) ==
  {copies[i] : i \in {k \in 1..Len(copies) : copies[k].by = path /\ copies[k].run = n}}

\* the loop of run n is past the j-th route
PastRoute(j, n) == n < run \/ ExportReturned \/ (xpc = "routes" /\ j < xi)

\* C6: every file copied for a route is either its html file, named
\* <segments>.html ("index.html" for the root route, never ".html") and
\* taken from the route's build location, or the data file of a
\* legacy-rendered route, <segments>.json copied to the route's dataRoute;
\* a legacy route whose html was copied gets its data file too, a route
\* whose dataRoute ends in .rsc gets none.
C6_RouteFileNames ==
  /\ \A i \in 1..Len(copies) :
       copies[i].by # ByDefault => (IsHtmlCopy(copies[i]) \/ IsDataCopy(copies[i]))
  /\ \A n \in 1..run :
       \A j \in 1..(IF prerenderManifestFile.exists THEN Len(PrerenderRoutes) ELSE 0) :
         LET r == PrerenderRoutes[j]
             done == RouteCopies(r.path, n)
         IN  (done # {} /\ PastRoute(j, n)) =>
               /\ \E c \in done : IsHtmlCopy(c)
               /\ IsLegacy(r) => \E c \in done : IsDataCopy(c)
               /\ ~IsLegacy(r) => Cardinality(done) = 1

C6_Witness ==
  /\ ExportReturned
  /\ \E c \in RouteCopies(Root, 1) : c.dest = File(<<"index">>, "html")
  /\ \E c \in RouteCopies(Root, 1) : c.src.file = File(<<"index">>, "json")
  /\ \E r \in Range(PrerenderRoutes) : ~IsLegacy(r) /\ RouteCopies(r.path, 1) # {}

\* C8: a second export into the same destDir, the build unchanged, succeeds
\* and leaves exactly the directories and files the first export left.
C8_ExportIdempotent ==
  run > 1 =>
    /\ ~ExportFailed
    /\ ExportReturned =>
         (destDirs = firstOutput.dirs /\ destFiles = firstOutput.files)

C8_Witness ==
  /\ run = 2
  /\ ExportReturned
  /\ \E c \in RouteCopies(PathAB, 2) : c.dest.ext = "json"
  /\ \E f \in destFiles : f.content.loc = "public"

MatchedByMiddleware(path) ==
  \E e \in Range(middlewareManifestFile.json.middleware) :
    \E m \in Range(e.matchers) : RegExpTest(m.regexp, path)

\* C9: after the export the output holds no html file of a route that some
\* middleware matcher matches, index.html included.
C9_MiddlewareRouteNeverStatic ==
  ExportReturned =>
    \A r \in Range(PrerenderRoutes) :
      MatchedByMiddleware(r.path) => ~InOutput(htmlPathOf(r.path))

SourceMissing(route) ==
  \/ [loc |-> contentDistOf(route), file |-> htmlPathOf(route.path)] \notin serverFiles
  \/ /\ IsLegacy(route)
     /\ [loc |-> contentDistOf(route), file |-> dataPathOf(route.path)] \notin serverFiles

ManifestsExist ==
  /\ middlewareManifestFile.exists
  /\ prerenderManifestFile.exists
  /\ routesManifestFile.exists

\* C10: when a route that is not skipped lacks its html or data file in the
\* build, the export never returns, its loop never gets past that route,
\* and no later route is copied.
C10_MissingSourceAborts ==
  ManifestsExist =>
    \A j \in 1..Len(PrerenderRoutes) :
      (~skipsRoute(PrerenderRoutes[j].path, PrerenderRoutes[j])
       /\ SourceMissing(PrerenderRoutes[j])) =>
        /\ ~ExportReturned
        /\ xpc \in {"routes", "failed:route"} => xi <= j
        /\ \A k \in (j + 1)..Len(PrerenderRoutes) :
             \A n \in 1..run : RouteCopies(PrerenderRoutes[k].path, n) = {}

C10_Witness ==
  /\ ManifestsExist
  /\ xpc = "failed:route"
  /\ xi = 1
  /\ Len(PrerenderRoutes) = 2
  /\ RouteCopies(PrerenderRoutes[1].path, 1) # {}
  /\ ~skipsRoute(PrerenderRoutes[2].path, PrerenderRoutes[2])
  /\ ~SourceMissing(PrerenderRoutes[2])

----------------------------------------------------------------------------
(* Order of reading, deciding and writing *)

\* build() has read every manifest it reads: the routes manifest is the last
BuildHasReadAll == pc = "returned"

\* the export has read the middleware, prerender and routes manifests
ExportHasReadAll == xpc \in {"routes", "returned", "failed:route"}

NoReasonBeforeReads == reasonsForBackend # <<>> => BuildHasReadAll

NoOutputBeforeReads ==
  (run = 1 /\ (destDirs # {} \/ destFiles # {})) => ExportHasReadAll

NoPartialOutput ==
  xpc \in {"failed:readMiddleware", "failed:readManifests"}
    => (destDirs = {} /\ destFiles = {})

\* C11: build() decides no reason, and the export writes no directory and no
\* file to destDir, before every manifest the operation reads has been read;
\* so an export that fails on a manifest leaves destDir as it found it.
C11_ReadThenDecideThenAct ==
  /\ NoReasonBeforeReads
  /\ NoOutputBeforeReads
  /\ NoPartialOutput

----------------------------------------------------------------------------
(* Order of the reasons *)

OneIf(fires, text) == IF fires THEN <<[text |-> text, key |-> <<>>]>> ELSE <<>>

OnePer(text, keys) == [i \in 1..Len(keys) |-> [text |-> text, key |-> keys[i]]]

KeysOf(entries) == [i \in 1..Len(entries) |-> entries[i].path]

AdvancedRewrites ==
  \/ HasLaterRewritePhase
  \/ \E w \in Range(RewritesInUse) : ~isRewriteSupportedByFirebase(w)

FixedOrderReasons ==
  LET manifest == prerenderManifestFile.json
      rules == routesManifestFile.json
  IN  OneIf(~MiddlewareEmpty, "use of Next middleware")
      \o OneIf(~ImageOptimizationOff, "use of Next Image Optimization")
      \o OneIf(~NoAppDirectory, "use of Next app directory")
      \o OnePer("use of fallback",
                KeysOf(SelectSeq(manifest.dynamicRoutes, LAMBDA d : d.fallback # "false")))
      \o OnePer("use of revalidate",
                KeysOf(SelectSeq(manifest.routes, LAMBDA r : r.initialRevalidateSeconds # 0)))
      \o OnePer("non-static route", SelectSeq(pagesManifestFile.json, IsUnrendered))
      \o OneIf(\E h \in Range(rules.headers) : ~isHeaderSupportedByFirebase(h),
               "use of advanced headers")
      \o OneIf(\E r \in Range(rules.redirects) : ~isRedirectSupportedByFirebase(r),
               "use of advanced redirects")
      \o OneIf(AdvancedRewrites, "use of advanced rewrites")

\* C12: when build() returns, the list of reasons is the middleware reason,
\* the image-optimization reason, the app-directory reason, one fallback
\* reason per dynamic route with a fallback, one revalidation reason per
\* revalidated route, one non-static-route reason per unrendered page, and
\* the headers, redirects and rewrites reasons, each present exactly when
\* its own signal fires, in this order.
C12_ReasonsInFixedOrder == BuildReturned => reasonsForBackend = FixedOrderReasons

C12_Witness ==
  /\ BuildReturned
  /\ Len(reasonsForBackend) = 9
  /\ \A i, j \in 1..9 : i # j => reasonsForBackend[i].text # reasonsForBackend[j].text

----------------------------------------------------------------------------
(* The middleware reason *)

SomeMiddlewareHasMatcher ==
  \E m \in Range(middlewareManifestFile.json.middleware) : Len(m.matchers) >= 1

HasMiddlewareReason == ReasonCount("use of Next middleware", NoKey) >= 1

\* C13: when build() returns, the middleware reason is in the list exactly
\* when some registered middleware has at least one matcher; middleware
\* registered with empty matcher lists only adds no middleware reason.
C13_MiddlewareReasonIffMatcher ==
  BuildReturned => (HasMiddlewareReason <=> SomeMiddlewareHasMatcher)

----------------------------------------------------------------------------
(* The default html files *)

DefaultHtml(i) == File(<<DefaultHtmlFiles[i]>>, "html")

InBuild(loc, file) == [loc |-> loc, file |-> file] \in serverFiles

OutputFrom(file) == {f.content.loc : f \in {g \in destFiles : g.path = file}}

\* the first run has just left the loop over the default html files
DefaultHtmlDone == run = 1 /\ xpc = "readMiddleware"

\* C14: after the loop over index.html, 404.html and 500.html, each of them
\* is in the output root exactly when it is in server/pages or server/app,
\* and when it is in both the copy in the output is the one of server/app.
C14_DefaultHtmlPrefersApp ==
  DefaultHtmlDone =>
    \A i \in 1..Len(DefaultHtmlFiles) :
      LET file == DefaultHtml(i)
      IN  /\ InOutput(file) <=> (InBuild("pages", file) \/ InBuild("app", file))
          /\ (InBuild("pages", file) /\ InBuild("app", file))
               => OutputFrom(file) = {"app"}

----------------------------------------------------------------------------
(* Missing manifests *)

BuildAborted == pc = "failed"

MandatoryManifestMissing ==
  ~prerenderManifestFile.exists \/ ~pagesManifestFile.exists \/ ~routesManifestFile.exists

\* C15: build() aborts only when the routes, prerender or pages manifest is
\* missing; a missing middleware manifest, app-directory manifest, export
\* marker or images manifest does not abort it and adds no reason for its
\* feature.
C15_OptionalManifestsNotFatal ==
  /\ BuildAborted => MandatoryManifestMissing
  /\ BuildReturned =>
       /\ ~middlewareManifestFile.exists => ~HasMiddlewareReason
       /\ (~exportMarkerFile.exists \/ ~imagesManifestFile.exists)
            => ReasonCount("use of Next Image Optimization", NoKey) = 0
       /\ ~appPathRoutesManifestFile.exists
            => ReasonCount("use of Next app directory", NoKey) = 0

----------------------------------------------------------------------------
(* build() and the export on the same manifests *)

\* run n went past the j-th prerendered route and copied nothing for it
Skipped(j, n) == PastRoute(j, n) /\ RouteCopies(PrerenderRoutes[j].path, n) = {}

SomeRouteSkipped ==
  /\ xpc \in {"routes", "returned", "mkdirStatic", "copyPublic", "copyStatic",
              "defaultHtml", "readMiddleware", "readManifests"}
  /\ \E n \in 1..run : \E j \in 1..Len(PrerenderRoutes) : Skipped(j, n)

\* C16: whenever the route loop of the export has skipped a prerendered
\* route, the build() of the same manifests returned wantsBackend = true.
C16_SkippedRouteWantsBackend ==
  (BuildReturned /\ SomeRouteSkipped) => wantsBackend

C16_Witness ==
  /\ BuildReturned
  /\ ExportReturned
  /\ SomeRouteSkipped
  /\ Len(reasonsForBackend) = 1
  /\ reasonsForBackend[1].text = "use of revalidate"

====
